---------------------------- MODULE Spec2Model ----------------------------
(***************************************************************************)
(* Model of earthquake.py: one catalog request, one filter pass over the   *)
(* returned features, the GeoJSON line extractor and the 3D scene          *)
(* composer.  One run of the script (or one direct call of the composer)   *)
(* is one behaviour; pc is the position in the code.                       *)
(*                                                                         *)
(* JSON values are tagged records [t, v]: t is the Python type after       *)
(* json decoding ("null" = None, "num" = int/float, "bool", "str").        *)
(* Magnitudes and marker sizes are held in tenths (20 = 2.0), every other  *)
(* number in its own unit (degrees, km, milliseconds).                     *)
(***************************************************************************)
EXTENDS Integers, Sequences, FiniteSets, TLC

VARIABLES pc, caller, requests_made, nfeatures, feature, earthquake_list,
          exc, log, marker_sizes, data_to_plot, geojson_file, geojson_data,
          map_lines, line_i, fig, shown, artifact

vars == <<pc, caller, requests_made, nfeatures, feature, earthquake_list,
          exc, log, marker_sizes, data_to_plot, geojson_file, geojson_data,
          map_lines, line_i, fig, shown, artifact>>

(* ------------------------------ bounds -------------------------------- *)
\* features in one catalog response
MaxFeatures == 3
\* events in a list handed straight to the composer
MaxDirect == 1
\* rings in one polygon of the boundary document
MaxRings == 2
\* polygons in one MultiPolygon
MaxPolys == 2
\* lines in one MultiLineString
MaxLines == 2
\* features in one boundary FeatureCollection
MaxDocFeatures == 2

(* ------------------------- configuration ------------------------------ *)
MIN_DEPTH_KM == 30
\* 3, in tenths
EARTHQUAKE_MARKER_SIZE_BASE == 30
\* 1.0, in tenths
MARKER_MAGNITUDE_MULTIPLIER == 10
CITY_MARKER_SIZE == 3
\* (latitude, longitude) of the city table, in 1/10000 degree
MAJOR_JAPANESE_CITIES ==
    << <<356895, 1396917>>, <<346937, 1355022>>, <<351815, 1369066>>,
       <<430621, 1413544>>, <<335903, 1304017>>, <<382682, 1408694>>,
       <<343963, 1324596>>, <<346851, 1339187>>, <<380000, 1400000>>,
       <<379023, 1390232>>, <<350116, 1357681>>, <<347042, 1373820>>,
       <<327875, 1298738>>, <<315969, 1305571>>, <<262124, 1276809>> >>
\* offset of the local time zone from UTC, seconds (Asia/Tokyo)
LocalUTCOffset == 32400
\* the literal shown when an event has no time
UNKNOWN_TIME == "unknown"

(* --------------------------- JSON values ------------------------------ *)
Null == [t |-> "null", v |-> 0]
Num(n) == [t |-> "num", v |-> n]
Bool(b) == [t |-> "bool", v |-> IF b THEN 1 ELSE 0]
Str == [t |-> "str", v |-> 0]

\* isinstance(val, (int, float)): bool is a subclass of int
IsIntOrFloat(val) == val.t \in {"num", "bool"}
\* Python truth value of a decoded JSON scalar (the string here is non-empty)
Truthy(val) ==
    CASE val.t = "null" -> FALSE
      [] val.t = "num" -> val.v # 0
      [] val.t = "bool" -> val.v # 0
      [] OTHER -> TRUE

(* ----------------- datetime.fromtimestamp(...).strftime ---------------- *)
Pad2(n) == IF n < 10 THEN "0" \o ToString(n) ELSE ToString(n)

\* proleptic Gregorian date of a day number counted from 1970-01-01
CivilFromDays(days) ==
    LET z == days + 719468
        era == z \div 146097
        doe == z - era * 146097
        yoe == (doe - doe \div 1460 + doe \div 36524 - doe \div 146096) \div 365
        doy == doe - (365 * yoe + yoe \div 4 - yoe \div 100)
        mp == (5 * doy + 2) \div 153
        d == doy - (153 * mp + 2) \div 5 + 1
        m == IF mp < 10 THEN mp + 3 ELSE mp - 9
        y == yoe + era * 400 + (IF m <= 2 THEN 1 ELSE 0)
    IN  <<y, m, d>>

\* datetime.fromtimestamp(ms / 1000).strftime("%Y/%m/%d %H:%M:%S")
FormatTimestamp(ms) ==
    LET secs == (ms \div 1000) + LocalUTCOffset
        ymd == CivilFromDays(secs \div 86400)
        sod == secs % 86400
    IN  ToString(ymd[1]) \o "/" \o Pad2(ymd[2]) \o "/" \o Pad2(ymd[3]) \o " "
        \o Pad2(sod \div 3600) \o ":" \o Pad2((sod % 3600) \div 60) \o ":"
        \o Pad2(sod % 60)


(* ------------------------ catalog response ---------------------------- *)
\* feature.get('properties'): None, or a dict with mag, time and place
NoProperties == [kind |-> "none", mag |-> Null, time |-> Null, place |-> Null]
Properties(m, t) == [kind |-> "dict", mag |-> m, time |-> t, place |-> Str]
\* feature.get('geometry'): None, or a dict with a coordinates list
NoGeometry == [kind |-> "none", coordinates |-> <<>>]
Geometry(c) == [kind |-> "dict", coordinates |-> c]
Feature(p, g) == [properties |-> p, geometry |-> g]
\* the loop variable before the first and after the last iteration
NoFeature == Feature(NoProperties, NoGeometry)

\* a well-formed deep event, and the features that differ from it in one
\* field (two for the shallow event whose time is not a number)
GoodCoords == <<Num(140), Num(35), Num(50)>>
GoodProps == Properties(Num(60), Num(1500))
LatValues == {Bool(TRUE), Str}
DepthValues == {Num(10), Num(30), Null, Str, Bool(TRUE)}
MagValues == {Null, Num(20), Str}
TimeValues == {Null, Num(0), Num(54000000), Str}
ShortCoords == {<<>>, <<Num(140), Num(35)>>}
Features ==
    {Feature(GoodProps, Geometry(GoodCoords)),
     Feature(NoProperties, Geometry(GoodCoords)),
     Feature(GoodProps, NoGeometry),
     Feature(Properties(Num(60), Str), Geometry(<<Num(140), Num(35), Num(10)>>))}
    \cup {Feature(GoodProps, Geometry(c)) : c \in ShortCoords}
    \cup {Feature(GoodProps, Geometry(<<Num(140), la, Num(50)>>)) : la \in LatValues}
    \cup {Feature(GoodProps, Geometry(<<Num(140), Num(35), d>>)) : d \in DepthValues}
    \cup {Feature(Properties(m, Num(1500)), Geometry(GoodCoords)) : m \in MagValues}
    \cup {Feature(Properties(Num(60), t), Geometry(GoodCoords)) : t \in TimeValues}

\* requests.get / raise_for_status raising a RequestException
TransportFailures == {"ConnectionError", "Timeout", "HTTPError"}

(* ----------------- get_usgs_earthquake_data, per feature -------------- *)
\* if properties and geometry and geometry.get('coordinates')
HasFields(f) ==
    /\ f.properties.kind = "dict"
    /\ f.geometry.kind = "dict"
    /\ Len(f.geometry.coordinates) > 0

\* the exception the body of the if raises before the record is judged
FeatureRaises(f) ==
    IF Len(f.geometry.coordinates) < 3 THEN "IndexError"
    ELSE IF Truthy(f.properties.time) /\ f.properties.time.t = "str" THEN "TypeError"
    ELSE "none"

\* ... if time_ms else the literal
EventTime(time_ms) ==
    IF Truthy(time_ms) THEN FormatTimestamp(time_ms.v) ELSE UNKNOWN_TIME

\* all(isinstance(...)) and depth is not None and mag is not None
ValidRecord(lat, lon, depth, mag) ==
    /\ \A val \in {lat, lon, depth} : IsIntOrFloat(val)
    /\ depth.t # "null"
    /\ mag.t # "null"

\* the depth floor left out
DeepEnoughNoFloor(depth) == depth.v >= 0

\* depth >= MIN_DEPTH_KM
DeepEnough(depth) == depth.v >= MIN_DEPTH_KM

Event(lat, lon, depth, mag, time, place) ==
    [latitude |-> lat, longitude |-> lon, depth |-> depth,
     magnitude |-> mag, time |-> time, place |-> place]

EventOf(f) ==
    Event(f.geometry.coordinates[2], f.geometry.coordinates[1],
          f.geometry.coordinates[3], f.properties.mag,
          EventTime(f.properties.time), f.properties.place)

Accepts(f) ==
    /\ ValidRecord(f.geometry.coordinates[2], f.geometry.coordinates[1],
                   f.geometry.coordinates[3], f.properties.mag)
    /\ DeepEnough(f.geometry.coordinates[3])

(* ------------------------------ state --------------------------------- *)
NoDocument == [type |-> "none"]

Init ==
    /\ pc = "start"
    /\ caller = "none"
    /\ requests_made = 0
    /\ nfeatures = 0
    /\ feature = NoFeature
    /\ earthquake_list = <<>>
    /\ exc = "none"
    /\ log = <<>>
    /\ marker_sizes = <<>>
    /\ data_to_plot = <<>>
    /\ geojson_file = "unopened"
    /\ geojson_data = NoDocument
    /\ map_lines = <<>>
    /\ line_i = 0
    /\ fig = <<>>
    /\ shown = FALSE
    /\ artifact = FALSE

catalogVars == <<requests_made, nfeatures, feature, earthquake_list>>
sceneVars == <<marker_sizes, data_to_plot, geojson_file, geojson_data,
               map_lines, line_i, fig, shown, artifact>>

(* ------------- __main__ and get_usgs_earthquake_data ------------------ *)
\* lines 95-104: the request is answered and the body parsed
RequestSucceeds ==
    /\ pc = "start"
    /\ pc' = "parse"
    /\ caller' = "main"
    /\ requests_made' = requests_made + 1
    /\ earthquake_list' = <<>>
    /\ log' = Append(log, "fetching")
    /\ UNCHANGED <<nfeatures, feature, exc, sceneVars>>

\* the request repeated once after a failure
RequestFailsRetrying ==
    /\ pc = "start"
    /\ \E failure \in TransportFailures :
          log' = log \o <<"fetching", "api_error", failure>>
    /\ pc' = "main_check"
    /\ caller' = "main"
    /\ requests_made' = requests_made + 2
    /\ earthquake_list' = <<>>
    /\ UNCHANGED <<nfeatures, feature, exc, sceneVars>>

\* lines 95-100, 131-134: requests.get or raise_for_status raises
RequestFails ==
    /\ pc = "start"
    /\ \E failure \in TransportFailures :
          log' = log \o <<"fetching", "api_error", failure>>
    /\ pc' = "main_check"
    /\ caller' = "main"
    /\ requests_made' = requests_made + 1
    /\ earthquake_list' = <<>>
    /\ UNCHANGED <<nfeatures, feature, exc, sceneVars>>

\* lines 106-129: one iteration of the loop over data['features']
ParseFeature ==
    /\ pc = "parse"
    /\ nfeatures < MaxFeatures
    /\ \E f \in Features :
          /\ feature' = f
          /\ nfeatures' = nfeatures + 1
          /\ IF ~HasFields(f)
                THEN /\ UNCHANGED <<pc, exc, earthquake_list>>
             ELSE IF FeatureRaises(f) # "none"
                THEN /\ pc' = "crashed"
                     /\ exc' = FeatureRaises(f)
                     /\ UNCHANGED earthquake_list
             ELSE IF Accepts(f)
                THEN /\ earthquake_list' = Append(earthquake_list, EventOf(f))
                     /\ UNCHANGED <<pc, exc>>
             ELSE UNCHANGED <<pc, exc, earthquake_list>>
    /\ UNCHANGED <<caller, requests_made, log, sceneVars>>

\* line 130: the loop is over and the list is returned
ParseReturn ==
    /\ pc = "parse"
    /\ pc' = "main_check"
    /\ feature' = NoFeature
    /\ UNCHANGED <<caller, requests_made, nfeatures, earthquake_list, exc, log,
                   sceneVars>>

\* lines 320-322: data came back, the composer is called
MainVisualize ==
    /\ pc = "main_check"
    /\ earthquake_list # <<>>
    /\ pc' = "viz_entry"
    /\ log' = Append(log, "received")
    /\ UNCHANGED <<caller, catalogVars, exc, sceneVars>>

\* lines 323-324: nothing came back
MainNoData ==
    /\ pc = "main_check"
    /\ earthquake_list = <<>>
    /\ pc' = "done"
    /\ log' = Append(log, "fetch_failed_or_no_data")
    /\ UNCHANGED <<caller, catalogVars, exc, sceneVars>>

(* ------------------------ boundary document --------------------------- *)
SeqsUpTo(S, n) == UNION {[1..k -> S] : k \in 0..n}

\* an outer ring, a hole, and a line with a one-number position in it
RingA == << <<130, 30>>, <<140, 40>>, <<130, 30>> >>
RingH == << <<134, 34>>, <<135, 35>>, <<134, 34>> >>
BadLine == << <<130, 30>>, <<140>> >>

Geom(type, coordinates) == [type |-> type, coordinates |-> coordinates]
\* "geometry": null
NullGeometry == [type |-> "null"]
GeoFeature(g) == [type |-> "Feature", geometry |-> g]
FeatureCollection(fs) == [type |-> "FeatureCollection", features |-> fs]

PointDocs == {Geom("Point", <<135, 35>>)}
LineStringDocs == {Geom("LineString", l) : l \in {RingA, RingH, BadLine}}
MultiLineStringDocs ==
    {Geom("MultiLineString", ls) : ls \in SeqsUpTo({RingA, RingH, BadLine}, MaxLines)}
PolygonDocs == {Geom("Polygon", rs) : rs \in SeqsUpTo({RingA, RingH}, MaxRings)}
MultiPolygonDocs ==
    {Geom("MultiPolygon", ps) :
        ps \in SeqsUpTo({<<>>, <<RingA>>, <<RingA, RingH>>, <<RingH, RingA>>}, MaxPolys)}
FeatureDocs ==
    {GeoFeature(g) : g \in {NullGeometry, Geom("LineString", RingA),
                            Geom("LineString", BadLine),
                            Geom("Polygon", <<RingH, RingA>>),
                            Geom("Polygon", <<>>)}}
FeatureCollectionDocs ==
    {FeatureCollection(fs) : fs \in SeqsUpTo(FeatureDocs, MaxDocFeatures)}
\* a JSON object that is no GeoJSON object the extractor knows
OtherDocs == {[type |-> "Topology"]}

(* ----------------------- extract_geojson_lines ------------------------ *)
Returns(coords) == [exc |-> "none", coords |-> coords]
Raises(e) == [exc |-> e, coords |-> <<>>]

\* the last ring taken for the first
LastRing(poly) == poly[Len(poly)]

\* geom_coords[0], poly[0]: the first ring of a polygon
OuterRing(poly) == poly[1]

extract_coords(geometry) ==
    LET geom_type == geometry.type
        geom_coords == geometry.coordinates
    IN  CASE geom_type = "LineString" -> Returns(<<geom_coords>>)
          [] geom_type = "MultiLineString" -> Returns(geom_coords)
          [] geom_type = "Polygon" ->
                IF Len(geom_coords) = 0 THEN Raises("IndexError")
                ELSE Returns(<<OuterRing(geom_coords)>>)
          [] geom_type = "MultiPolygon" ->
                IF \E i \in 1..Len(geom_coords) : Len(geom_coords[i]) = 0
                THEN Raises("IndexError")
                ELSE Returns([i \in 1..Len(geom_coords) |-> OuterRing(geom_coords[i])])
          [] OTHER -> Returns(<<>>)

\* if geometry: all_lines.extend(extract_coords(geometry))
ExtendWith(all_lines, geometry) ==
    IF geometry.type = "null" THEN Returns(all_lines)
    ELSE LET r == extract_coords(geometry)
         IN  IF r.exc # "none" THEN r ELSE Returns(all_lines \o r.coords)

RECURSIVE ExtractFeatures(_, _)
ExtractFeatures(features, all_lines) ==
    IF features = <<>> THEN Returns(all_lines)
    ELSE LET r == ExtendWith(all_lines, Head(features).geometry)
         IN  IF r.exc # "none" THEN r
             ELSE ExtractFeatures(Tail(features), r.coords)

extract_geojson_lines(geojson_data_) ==
    IF geojson_data_.type = "FeatureCollection"
        THEN ExtractFeatures(geojson_data_.features, <<>>)
    ELSE IF geojson_data_.type = "Feature"
        THEN ExtendWith(<<>>, geojson_data_.geometry)
    ELSE IF "coordinates" \in DOMAIN geojson_data_
        THEN ExtendWith(<<>>, geojson_data_)
    ELSE Returns(<<>>)

(* -------------------- visualize_earthquakes_pure_3d ------------------- *)
Max(a, b) == IF a >= b THEN a ELSE b

\* mag * MARKER_MAGNITUDE_MULTIPLIER raises for anything but a number
Multipliable(mag) == mag.t \in {"num", "bool"}

\* the size without its floor
MarkerSizeUnclamped(mag) == (mag.v * MARKER_MAGNITUDE_MULTIPLIER) \div 10

\* line 212, in tenths
MarkerSize(mag) ==
    Max(EARTHQUAKE_MARKER_SIZE_BASE, (mag.v * MARKER_MAGNITUDE_MULTIPLIER) \div 10)

\* the depth plotted without its sign turned
DepthForPlotUnsigned(depth) == depth.v

\* line 199: depth is drawn downwards
DepthForPlot(depth) == 0 - depth.v

\* lines 237, 274: the surface
SurfaceZ(points) == [i \in 1..Len(points) |-> 0]

\* lines 202-209
DetailText(eq) ==
    <<eq.time, eq.place, eq.latitude, eq.longitude, eq.depth, eq.magnitude>>

\* lines 214-231
EventTrace(eqs) ==
    [name |-> "Earthquakes", mode |-> "markers",
     x |-> [i \in 1..Len(eqs) |-> eqs[i].longitude],
     y |-> [i \in 1..Len(eqs) |-> eqs[i].latitude],
     z |-> [i \in 1..Len(eqs) |-> DepthForPlot(eqs[i].depth)],
     size |-> [i \in 1..Len(eqs) |-> MarkerSize(eqs[i].magnitude)],
     color |-> [i \in 1..Len(eqs) |-> eqs[i].depth],
     text |-> [i \in 1..Len(eqs) |-> DetailText(eqs[i])]]

\* lines 233-257
CityTrace ==
    [name |-> "Major Cities", mode |-> "markers+text",
     x |-> [i \in 1..Len(MAJOR_JAPANESE_CITIES) |-> MAJOR_JAPANESE_CITIES[i][2]],
     y |-> [i \in 1..Len(MAJOR_JAPANESE_CITIES) |-> MAJOR_JAPANESE_CITIES[i][1]],
     z |-> SurfaceZ(MAJOR_JAPANESE_CITIES),
     size |-> CITY_MARKER_SIZE]

\* lines 271-283
LineTrace(i, line_coords) ==
    [name |-> <<"GeoJSON_Map_Line", i>>, mode |-> "lines",
     x |-> [k \in 1..Len(line_coords) |-> line_coords[k][1]],
     y |-> [k \in 1..Len(line_coords) |-> line_coords[k][2]],
     z |-> SurfaceZ(line_coords)]

\* coord[0], coord[1] raise IndexError on a shorter position
LineRaises(line_coords) == \E k \in 1..Len(line_coords) : Len(line_coords[k]) < 2

\* event lists a caller other than __main__ passes
DirectEvents ==
    {Event(Num(35), Num(140), d, m, UNKNOWN_TIME, Str) :
        d \in {Num(10), Num(50)}, m \in {Num(20), Str}}

\* visualize_earthquakes_pure_3d called by other code
DirectCall ==
    /\ pc = "start"
    /\ \E eqs \in SeqsUpTo(DirectEvents, MaxDirect) : earthquake_list' = eqs
    /\ pc' = "viz_entry"
    /\ caller' = "direct"
    /\ UNCHANGED <<requests_made, nfeatures, feature, exc, log, sceneVars>>

\* the empty-list check left out
VizEmptyRenders ==
    /\ pc = "viz_entry"
    /\ earthquake_list = <<>>
    /\ log' = Append(log, "valid_count")
    /\ marker_sizes' = <<>>
    /\ data_to_plot' = <<EventTrace(earthquake_list), CityTrace>>
    /\ pc' = "load_geojson"
    /\ UNCHANGED <<caller, catalogVars, exc, geojson_file, geojson_data,
                   map_lines, line_i, fig, shown, artifact>>

\* lines 188-190
VizEmpty ==
    /\ pc = "viz_entry"
    /\ earthquake_list = <<>>
    /\ pc' = "done"
    /\ log' = Append(log, "nothing_to_visualize")
    /\ UNCHANGED <<caller, catalogVars, exc, sceneVars>>

\* lines 192-257: the event trace and the city trace
VizBuildScene ==
    /\ pc = "viz_entry"
    /\ earthquake_list # <<>>
    /\ log' = Append(log, "valid_count")
    /\ IF \A i \in 1..Len(earthquake_list) : Multipliable(earthquake_list[i].magnitude)
          THEN /\ marker_sizes' = EventTrace(earthquake_list).size
               /\ data_to_plot' = <<EventTrace(earthquake_list), CityTrace>>
               /\ pc' = "load_geojson"
               /\ UNCHANGED exc
          ELSE /\ pc' = "crashed"
               /\ exc' = "TypeError"
               /\ UNCHANGED <<marker_sizes, data_to_plot>>
    /\ UNCHANGED <<caller, catalogVars, geojson_file, geojson_data, map_lines,
                   line_i, fig, shown, artifact>>

\* lines 261, 286-291: open() raises
OpenFails ==
    /\ pc = "load_geojson"
    /\ \/ /\ geojson_file' = "missing"
          /\ log' = Append(log, "geojson_not_found")
       \/ /\ geojson_file' = "unreadable"
          /\ log' = Append(log, "geojson_error")
    /\ pc' = "render"
    /\ UNCHANGED <<caller, catalogVars, exc, marker_sizes, data_to_plot,
                   geojson_data, map_lines, line_i, fig, shown, artifact>>

\* lines 262, 288-289: json.load raises
LoadFails ==
    /\ pc = "load_geojson"
    /\ geojson_file' = "invalid_json"
    /\ log' = Append(log, "geojson_invalid")
    /\ pc' = "render"
    /\ UNCHANGED <<caller, catalogVars, exc, marker_sizes, data_to_plot,
                   geojson_data, map_lines, line_i, fig, shown, artifact>>

\* lines 262-266, 290-291: the document is read and the extractor runs
ReadDocument(doc) ==
    LET r == extract_geojson_lines(doc)
    IN  /\ geojson_file' = "read"
        /\ geojson_data' = doc
        /\ IF r.exc # "none"
              THEN /\ log' = Append(log, "geojson_error")
                   /\ pc' = "render"
                   /\ UNCHANGED map_lines
              ELSE /\ log' = Append(log, "geojson_extracted")
                   /\ pc' = "lines"
                   /\ map_lines' = r.coords

ExtractLines ==
    /\ pc = "load_geojson"
    /\ \/ /\ geojson_file' = "not_an_object"
          /\ log' = Append(log, "geojson_error")
          /\ pc' = "render"
          /\ UNCHANGED <<geojson_data, map_lines>>
       \/ \E doc \in PointDocs : ReadDocument(doc)
       \/ \E doc \in LineStringDocs : ReadDocument(doc)
       \/ \E doc \in MultiLineStringDocs : ReadDocument(doc)
       \/ \E doc \in PolygonDocs : ReadDocument(doc)
       \/ \E doc \in MultiPolygonDocs : ReadDocument(doc)
       \/ \E doc \in PointDocs : ReadDocument(GeoFeature(doc))
       \/ \E doc \in FeatureDocs : ReadDocument(doc)
       \/ \E doc \in FeatureCollectionDocs : ReadDocument(doc)
       \/ \E doc \in OtherDocs : ReadDocument(doc)
    /\ UNCHANGED <<caller, catalogVars, exc, marker_sizes, data_to_plot,
                   line_i, fig, shown, artifact>>

\* lines 269-283, 290-291: one iteration of the loop over map_lines
AddLine ==
    /\ pc = "lines"
    /\ line_i < Len(map_lines)
    /\ IF LineRaises(map_lines[line_i + 1])
          THEN /\ log' = Append(log, "geojson_error")
               /\ pc' = "render"
               /\ UNCHANGED <<data_to_plot, line_i>>
          ELSE /\ data_to_plot' =
                     Append(data_to_plot, LineTrace(line_i, map_lines[line_i + 1]))
               /\ line_i' = line_i + 1
               /\ UNCHANGED <<pc, log>>
    /\ UNCHANGED <<caller, catalogVars, exc, marker_sizes, geojson_file,
                   geojson_data, map_lines, fig, shown, artifact>>

\* line 284
LinesDone ==
    /\ pc = "lines"
    /\ line_i = Len(map_lines)
    /\ log' = Append(log, "geojson_added")
    /\ pc' = "render"
    /\ UNCHANGED <<caller, catalogVars, exc, sceneVars>>

\* lines 295-309
Render ==
    /\ pc = "render"
    /\ fig' = data_to_plot
    /\ shown' = TRUE
    /\ pc' = "write"
    /\ UNCHANGED <<caller, catalogVars, exc, log, marker_sizes, data_to_plot,
                   geojson_file, geojson_data, map_lines, line_i, artifact>>

\* lines 311-313
WriteHtml ==
    /\ pc = "write"
    /\ artifact' = TRUE
    /\ log' = Append(log, "saved")
    /\ pc' = "done"
    /\ UNCHANGED <<caller, catalogVars, exc, marker_sizes, data_to_plot,
                   geojson_file, geojson_data, map_lines, line_i, fig, shown>>

Next ==
    \/ RequestSucceeds
    \/ RequestFails
    \/ ParseFeature
    \/ ParseReturn
    \/ MainVisualize
    \/ MainNoData
    \/ DirectCall
    \/ VizEmpty
    \/ VizBuildScene
    \/ OpenFails
    \/ LoadFails
    \/ ExtractLines
    \/ AddLine
    \/ LinesDone
    \/ Render
    \/ WriteHtml

Spec == Init /\ [][Next]_vars

(* ============================ properties ============================== *)
InLog(m) == \E i \in 1..Len(log) : log[i] = m
Last(s) == s[Len(s)]
\* the last step of the parse loop appended a record built from feature'
Appended == pc = "parse" /\ Len(earthquake_list') = Len(earthquake_list) + 1

(* C1: every record of the list get_usgs_earthquake_data builds has a      *)
(* depth of at least MIN_DEPTH_KM; no shallower record is ever in it.      *)
C1_AcceptedDepthAtLeastMin ==
    caller = "main" =>
        \A i \in 1..Len(earthquake_list) :
            /\ earthquake_list[i].depth.t = "num"
            /\ earthquake_list[i].depth.v >= MIN_DEPTH_KM

\* three features, the last 10 km deep: the list holds the other two
C1_Witness ==
    /\ caller = "main"
    /\ pc = "parse"
    /\ nfeatures = 3
    /\ HasFields(feature)
    /\ feature.geometry.coordinates[3] = Num(10)
    /\ feature.properties.time.t = "num"
    /\ Len(earthquake_list) = 2
    /\ earthquake_list[1].depth = Num(MIN_DEPTH_KM)

(* C2: a record enters the returned list only if its properties and        *)
(* geometry are present, its coordinates exist, its latitude, longitude    *)
(* and depth are numbers, and its depth and magnitude are present.         *)
C2_AcceptedOnlyWellFormed ==
    [][Appended =>
          /\ feature'.properties.kind = "dict"
          /\ feature'.geometry.kind = "dict"
          /\ Len(feature'.geometry.coordinates) >= 3
          /\ \A k \in 1..3 : feature'.geometry.coordinates[k].t = "num"
          /\ feature'.properties.mag.t # "null"]_vars

(* C3: a record with malformed or missing fields (fewer than three         *)
(* coordinates, a depth or a time that is no number) is skipped: the loop  *)
(* raises nothing, keeps the list as it is and goes on.                    *)
MalformedFeature(f) ==
    \/ ~HasFields(f)
    \/ Len(f.geometry.coordinates) < 3
    \/ f.geometry.coordinates[3].t \in {"null", "str"}
    \/ f.properties.time.t = "str"

C3_MalformedRecordSkipped ==
    [][(pc = "parse" /\ nfeatures' = nfeatures + 1 /\ MalformedFeature(feature')) =>
          /\ pc' = "parse"
          /\ exc' = "none"
          /\ earthquake_list' = earthquake_list]_vars

(* C4: when the one request fails, the failure is reported, the list is    *)
(* empty, no second request is made, the composer is never entered, no     *)
(* scene is shown or written and the run ends without an exception.        *)
RequestFailed == InLog("api_error")

C4_TransportFailureTakesNoDataPath ==
    RequestFailed =>
        /\ requests_made = 1
        /\ earthquake_list = <<>>
        /\ exc = "none"
        /\ pc \in {"main_check", "done"}
        /\ pc = "main_check" => (ENABLED MainNoData /\ ~ENABLED MainVisualize)
        /\ pc = "done" => Last(log) = "fetch_failed_or_no_data"
        /\ ~InLog("valid_count") /\ ~InLog("nothing_to_visualize")
        /\ fig = <<>> /\ ~shown /\ ~artifact

C4_Witness ==
    /\ pc = "done"
    /\ log = <<"fetching", "api_error", "Timeout", "fetch_failed_or_no_data">>

(* C5: with a boundary document that is missing, unreadable or malformed,  *)
(* the failure is logged, the composer goes on to render and write, and    *)
(* the scene holds the event trace and the city trace and no line trace.   *)
BoundaryFailed ==
    InLog("geojson_not_found") \/ InLog("geojson_invalid") \/ InLog("geojson_error")

C5_DegradedSceneHasNoBoundaryLines ==
    BoundaryFailed =>
        /\ pc \in {"render", "write", "done"}
        /\ exc = "none"
        /\ pc = "done" => artifact
        /\ shown =>
              /\ Len(fig) = 2
              /\ fig[1].name = "Earthquakes"
              /\ fig[2].name = "Major Cities"

(* C6: with an empty event list nothing is rendered and nothing written,   *)
(* and the run ends on a message that there is no data; a scene is written *)
(* only in a run whose event list is not empty.                            *)
C6_EmptyListWritesNothing ==
    /\ (caller # "none" /\ earthquake_list = <<>>) =>
          /\ fig = <<>> /\ ~shown /\ ~artifact
          /\ pc \notin {"load_geojson", "lines", "render", "write"}
          /\ pc = "done" =>
                Last(log) \in {"nothing_to_visualize", "fetch_failed_or_no_data"}
    /\ (artifact \/ shown) => earthquake_list # <<>>

\* the composer was handed an empty list and returned
C6_Witness ==
    /\ pc = "done"
    /\ caller = "direct"
    /\ earthquake_list = <<>>
    /\ log = <<"nothing_to_visualize">>

(* C7: a Polygon of one or more rings gives exactly one sequence, its      *)
(* first ring; a MultiPolygon of K such polygons gives K sequences, the    *)
(* i-th the first ring of the i-th polygon.                                *)
ExtractedGeometry ==
    IF geojson_data.type = "Feature" THEN geojson_data.geometry ELSE geojson_data

C7_PolygonOuterRingsOnly ==
    geojson_file = "read" =>
        LET g == ExtractedGeometry
        IN  /\ (g.type = "Polygon" /\ Len(g.coordinates) >= 1) =>
                  /\ InLog("geojson_extracted")
                  /\ Len(map_lines) = 1
                  /\ map_lines[1] = g.coordinates[1]
            /\ (g.type = "MultiPolygon"
                  /\ \A i \in 1..Len(g.coordinates) : Len(g.coordinates[i]) >= 1) =>
                  /\ InLog("geojson_extracted")
                  /\ Len(map_lines) = Len(g.coordinates)
                  /\ \A i \in 1..Len(map_lines) : map_lines[i] = g.coordinates[i][1]

\* two polygons, each with a hole, gave their two outer rings
C7_Witness ==
    /\ geojson_file = "read"
    /\ geojson_data.type = "MultiPolygon"
    /\ Len(geojson_data.coordinates) = 2
    /\ Len(geojson_data.coordinates[1]) = 2
    /\ Len(geojson_data.coordinates[2]) = 2
    /\ map_lines = <<geojson_data.coordinates[1][1], geojson_data.coordinates[2][1]>>
    /\ map_lines[1] # map_lines[2]

(* C8: the time of an accepted record is the literal for an absent source  *)
(* time and the converted local time otherwise, a source time of 0         *)
(* included.                                                               *)
C8_TimeIsConvertedUnlessAbsent ==
    [][Appended =>
          Last(earthquake_list').time =
              IF feature'.properties.time.t = "null" THEN UNKNOWN_TIME
              ELSE FormatTimestamp(feature'.properties.time.v)]_vars

(* C9: the marker size of every event is max(base, magnitude * multiplier),*)
(* never below the base; magnitude 2.0 gives 3 and 6.0 gives 6.            *)
C9_MarkerSizeIsMaxOfBaseAndScaled ==
    data_to_plot # <<>> =>
        /\ data_to_plot[1].size = marker_sizes
        /\ Len(marker_sizes) = Len(earthquake_list)
        /\ \A i \in 1..Len(marker_sizes) :
              LET m == earthquake_list[i].magnitude.v
                  size == marker_sizes[i]
              IN  /\ size >= EARTHQUAKE_MARKER_SIZE_BASE
                  /\ size * 10 >= m * MARKER_MAGNITUDE_MULTIPLIER
                  /\ \/ size = EARTHQUAKE_MARKER_SIZE_BASE
                     \/ size * 10 = m * MARKER_MAGNITUDE_MULTIPLIER
                  /\ m = 20 => size = 30
                  /\ m = 60 => size = 60

\* a scene written with a magnitude 2.0 and a magnitude 6.0 event
C9_Witness ==
    /\ pc = "done"
    /\ artifact
    /\ Len(earthquake_list) = 2
    /\ earthquake_list[1].magnitude = Num(20)
    /\ earthquake_list[2].magnitude = Num(60)
    /\ marker_sizes = <<30, 60>>

(* C10: in a run of __main__ that renders, the event trace comes first     *)
(* with every marker at z = -depth <= -MIN_DEPTH_KM < 0, the city trace    *)
(* second with every marker at z = 0, then the line traces in extraction   *)
(* order with every point at z = 0.                                        *)
C10_EventsBelowSurfaceOthersOnIt ==
    (caller = "main" /\ shown) =>
        /\ Len(fig) >= 2
        /\ fig[1].name = "Earthquakes"
        /\ Len(fig[1].z) = Len(earthquake_list)
        /\ \A i \in 1..Len(earthquake_list) :
              /\ fig[1].z[i] = 0 - earthquake_list[i].depth.v
              /\ fig[1].z[i] <= 0 - MIN_DEPTH_KM
              /\ fig[1].z[i] < 0
        /\ fig[2].name = "Major Cities"
        /\ Len(fig[2].z) = Len(MAJOR_JAPANESE_CITIES)
        /\ \A i \in 1..Len(fig[2].z) : fig[2].z[i] = 0
        /\ Len(fig) - 2 <= Len(map_lines)
        /\ \A k \in 3..Len(fig) :
              /\ fig[k].name = <<"GeoJSON_Map_Line", k - 3>>
              /\ Len(fig[k].z) = Len(map_lines[k - 2])
              /\ \A j \in 1..Len(fig[k].z) :
                    /\ fig[k].z[j] = 0
                    /\ fig[k].x[j] = map_lines[k - 2][j][1]
                    /\ fig[k].y[j] = map_lines[k - 2][j][2]

\* a written scene of two events and two boundary lines
C10_Witness ==
    /\ caller = "main"
    /\ pc = "done"
    /\ artifact
    /\ Len(earthquake_list) = 2
    /\ Len(map_lines) = 2
    /\ Len(fig) = 4

=============================================================================
